---------------------------- MODULE Spec2Model ----------------------------
(***************************************************************************)
(* PriorityQueue[E] of javastyle-collection (package priorityqueue, listed *)
(* in src/README.md lines 65-285) over Go's container/heap, with the       *)
(* default comparator of src/util/util.go.                                 *)
(*                                                                         *)
(* Slices are modelled as Go has them: a slice is a reference (arr) to a   *)
(* backing array plus a length; the array keeps its full capacity, stale   *)
(* slots included.  Indices are 0-based as in the source; a[i+1] is the    *)
(* TLA+ element for Go's a[i].  A panic is a fault: the operation stops    *)
(* where the code stops, and what it wrote before stays written.           *)
(***************************************************************************)
EXTENDS Integers, Sequences, FiniteSets, TLC

\* ------------------------------------------------------------- bounds
\* Longest queue the model builds.
MaxLen == 4
\* Longest queue of the heap-maintenance runs: three full levels of the tree.
MaxDeep == 6
\* Width of the machine integer (Go's int is 64 bits wide; the arithmetic
\* is the same two's complement arithmetic at any width).
IntBits == 6

\* ----------------------------------------------------------- constants
\* New: make([]E, 0, 11)
DefaultCapacity == 11

IntMod == 2 ^ IntBits
IntMin == 0 - (2 ^ (IntBits - 1))
IntMax == (2 ^ (IntBits - 1)) - 1

\* Go's int arithmetic wraps around at the word width.
Wrap(x) == ((x - IntMin) % IntMod) + IntMin

\* Go's integer division truncates toward zero.
GoDiv(x, y) == IF x >= 0 THEN x \div y ELSE 0 - ((0 - x) \div y)

\* ------------------------------------------------------------ elements
\* A value of the element type E: k is its dynamic type, v and n its
\* fields.   int: v   string: v (its rank in lexicographic order)
\* Person{Name, Age}: n = Name, v = Age     nil: the nil interface value
\* Task{ID, Pri, Tags []string}: n = ID, v = Pri (a struct with a slice
\* field: Go has no == for it).
Elem(k, v, n) == [k |-> k, v |-> v, n |-> n]
NilElem == Elem("nil", 0, 0)
IntE(i) == Elem("int", i, 0)
StrE(i) == Elem("string", i, 0)
Person(name, age) == Elem("Person", age, name)
Task(id, pri) == Elem("Task", pri, id)

\* var zero E
Zero(elem) ==
    CASE elem = "int" -> IntE(0)
      [] elem = "string" -> StrE(0)
      [] elem = "any" -> NilElem
      [] elem = "Person" -> Person(0, 0)
      [] OTHER -> Task(0, 0)

\* The construction options: E, WithComparator (cmp), WithEquals (eq),
\* WithCapacity (cap), and the range the caller's values are taken from.
IntValues(wide) == IF wide THEN {IntE(IntMin), IntE(0 - 1), IntE(1)} ELSE {IntE(1), IntE(2), IntE(3)}

Values(c) ==
    CASE c.elem = "int" -> IntValues(c.wide)
      [] c.elem = "string" -> {StrE(1), StrE(2)}
      [] c.elem = "any" -> {NilElem, IntE(1), StrE(1)}
      [] c.elem = "Person" -> IF c.eq = "custom"
                              THEN {Person(1, 28), Person(1, 29), Person(2, 25)}
                              ELSE {Person(1, 28), Person(2, 29), Person(3, 25)}
      [] OTHER -> {Task(1, 1), Task(1, 2), Task(2, 1)}

Config(elem, cmp, eq, cap, wide) ==
    [elem |-> elem, cmp |-> cmp, eq |-> eq, cap |-> cap, wide |-> wide, len |-> MaxLen]

Configs ==
    {Config("int", "default", "none", cp, FALSE) : cp \in {DefaultCapacity, 2, 0 - 1}}
    \cup {Config("int", "default", "none", DefaultCapacity, TRUE)}
    \cup {Config("string", "default", "none", cp, FALSE) : cp \in {DefaultCapacity, 1}}
    \cup {Config("any", "default", "none", DefaultCapacity, FALSE)}
    \cup {Config("Person", "custom", "none", DefaultCapacity, FALSE)}
    \cup {Config("Task", "default", "none", DefaultCapacity, FALSE)}
    \cup {Config("Task", "custom", "custom", DefaultCapacity, FALSE)}

\* ---------------------------------------------------------- comparator
Sign(x) == IF x < 0 THEN 0 - 1 ELSE IF x > 0 THEN 1 ELSE 0

\* util.DefaultComparator: the unchecked assertion any(b).(T) panics when
\* b's dynamic type is not a's.
DefaultComparatorFault(a, b) == a.k \in {"int", "float64", "string"} /\ b.k # a.k

DefaultComparator(a, b) ==
    CASE a.k = "int" -> Wrap(a.v - b.v)
      [] a.k = "float64" -> Sign(a.v - b.v)
      [] a.k = "string" -> Sign(a.v - b.v)
      [] OTHER -> 0

\* The caller's comparator of the README: func(a, b Person) int
\* { return a.Age - b.Age }; the same by Pri for Task.
CustomComparator(a, b) == Wrap(a.v - b.v)

CompareFault(c, a, b) == c.cmp = "default" /\ DefaultComparatorFault(a, b)

Compare(c, a, b) == IF c.cmp = "default" THEN DefaultComparator(a, b) ELSE CustomComparator(a, b)

\* The caller's equality function for Task: same ID.
CustomEquals(a, b) == a.n = b.n

\* reflect.TypeOf(item).Comparable()
Comparable(x) == x.k \in {"int", "float64", "string", "Person"}

\* ------------------------------------------------------- internalHeap
\* A heap value h: a is the backing array at its full capacity, n is
\* len(items), re says that a is a newly allocated array.
\* A result r carries the heap r.h and r.fault, "" when no panic was raised.

IndexFault(h, i) == i < 0 \/ i >= h.n

\* Less with the comparison turned round.
LessFlipped(c, h, i, j) == Compare(c, h.a[i + 1], h.a[j + 1]) > 0

\* func (ph internalHeap[E]) Less(i, j int) bool
LessFault(c, h, i, j) == CompareFault(c, h.a[i + 1], h.a[j + 1])

Less(c, h, i, j) == Compare(c, h.a[i + 1], h.a[j + 1]) < 0

\* func (ph *internalHeap[E]) Swap(i, j int)
Swap(h, i, j) == [h EXCEPT !.a = [h.a EXCEPT ![i + 1] = h.a[j + 1], ![j + 1] = h.a[i + 1]]]

\* append grows a full backing array into a new one.
Grow(cap) == IF cap = 0 THEN 1 ELSE 2 * cap

Zeros(elem, k) == [i \in 1..k |-> Zero(elem)]

\* append that never allocates: without room the element is dropped.
appendInPlace(c, h, x) ==
    IF h.n < Len(h.a)
    THEN [h EXCEPT !.a = [h.a EXCEPT ![h.n + 1] = x], !.n = h.n + 1]
    ELSE h

appendItem(c, h, x) ==
    IF h.n < Len(h.a)
    THEN [h EXCEPT !.a = [h.a EXCEPT ![h.n + 1] = x], !.n = h.n + 1]
    ELSE [a |-> SubSeq(h.a, 1, h.n) \o <<x>> \o Zeros(c.elem, Grow(Len(h.a)) - h.n - 1),
          n |-> h.n + 1, re |-> TRUE]

\* func (ph *internalHeap[E]) Push(x any): item, ok := x.(E) fails exactly
\* for the nil interface value, and then nothing is appended.
Push(c, h, x) == IF x.k = "nil" THEN h ELSE appendItem(c, h, x)

\* func (ph *internalHeap[E]) Pop() any
Pop(h) ==
    IF IndexFault(h, h.n - 1)
    THEN [h |-> h, fault |-> "index", val |-> NilElem]
    ELSE [h |-> [h EXCEPT !.n = h.n - 1], fault |-> "", val |-> h.a[h.n]]

\* ----------------------------------------------------- container/heap
RECURSIVE up(_, _, _)
up(c, h, j) ==
    LET i == GoDiv(j - 1, 2)
    IN  IF i = j THEN [h |-> h, fault |-> ""]
        ELSE IF LessFault(c, h, j, i) THEN [h |-> h, fault |-> "cmp"]
        ELSE IF ~Less(c, h, j, i) THEN [h |-> h, fault |-> ""]
        ELSE up(c, Swap(h, i, j), i)

RECURSIVE downFrom(_, _, _, _)
downFrom(c, h, i, n) ==
    LET j1 == 2 * i + 1
        j2 == j1 + 1
    IN  IF j1 >= n THEN [h |-> h, fault |-> "", at |-> i]
        ELSE IF j2 < n /\ LessFault(c, h, j2, j1) THEN [h |-> h, fault |-> "cmp", at |-> i]
        ELSE LET j == IF j2 < n /\ Less(c, h, j2, j1) THEN j2 ELSE j1
             IN  IF LessFault(c, h, j, i) THEN [h |-> h, fault |-> "cmp", at |-> i]
                 ELSE IF ~Less(c, h, j, i) THEN [h |-> h, fault |-> "", at |-> i]
                 ELSE downFrom(c, Swap(h, i, j), j, n)

down(c, h, i0, n) ==
    LET d == downFrom(c, h, i0, n)
    IN  [h |-> d.h, fault |-> d.fault, moved |-> d.at > i0]

RECURSIVE initFrom(_, _, _)
initFrom(c, h, i) ==
    IF i < 0 THEN [h |-> h, fault |-> ""]
    ELSE LET d == down(c, h, i, h.n)
         IN  IF d.fault # "" THEN [h |-> d.h, fault |-> d.fault] ELSE initFrom(c, d.h, i - 1)

heapInit(c, h) == initFrom(c, h, GoDiv(h.n, 2) - 1)

heapPush(c, h, x) == LET p == Push(c, h, x) IN up(c, p, p.n - 1)

heapPop(c, h) ==
    LET n == h.n - 1
    IN  IF IndexFault(h, 0) \/ IndexFault(h, n) THEN [h |-> h, fault |-> "index", val |-> NilElem]
        ELSE LET d == down(c, Swap(h, 0, n), 0, n)
             IN  IF d.fault # "" THEN [h |-> d.h, fault |-> d.fault, val |-> NilElem]
                 ELSE Pop(d.h)

\* heap.Remove restoring the order downwards only.
heapRemoveDownOnly(c, h, i) ==
    LET n == h.n - 1
    IN  IF n = i THEN Pop(h)
        ELSE IF IndexFault(h, i) \/ IndexFault(h, n) THEN [h |-> h, fault |-> "index", val |-> NilElem]
        ELSE LET d == down(c, Swap(h, i, n), i, n)
             IN  IF d.fault # "" THEN [h |-> d.h, fault |-> d.fault, val |-> NilElem]
                 ELSE Pop(d.h)

heapRemove(c, h, i) ==
    LET n == h.n - 1
    IN  IF n = i THEN Pop(h)
        ELSE IF IndexFault(h, i) \/ IndexFault(h, n) THEN [h |-> h, fault |-> "index", val |-> NilElem]
        ELSE LET d == down(c, Swap(h, i, n), i, n)
                 u == IF d.fault = "" /\ ~d.moved THEN up(c, d.h, i) ELSE [h |-> d.h, fault |-> d.fault]
             IN  IF u.fault # "" THEN [h |-> u.h, fault |-> u.fault, val |-> NilElem]
                 ELSE Pop(u.h)
\* ------------------------------------------------------ PriorityQueue
\* New: items = make([]E, 0, 11), or make([]E, 0, cap) under WithCapacity;
\* then heap.Init.
New(c) ==
    IF c.cap < 0
    THEN [h |-> [a |-> <<>>, n |-> 0, re |-> TRUE], fault |-> "makeslice: cap out of range"]
    ELSE heapInit(c, [a |-> Zeros(c.elem, c.cap), n |-> 0, re |-> TRUE])

\* Offer: heap.Push under a deferred recover: a panic becomes success = false.
Offer(c, h, item) ==
    LET r == heapPush(c, h, item)
    IN  [h |-> r.h, ok |-> r.fault = "", fault |-> ""]

\* Add: panic("Queue is full") when Offer returns false.
Add(c, h, item) ==
    LET o == Offer(c, h, item)
    IN  [h |-> o.h, ok |-> o.ok, fault |-> IF o.ok THEN "" ELSE "Queue is full"]

\* Poll: heap.Pop, and the zero value when the popped item is nil.
Poll(c, h) ==
    LET r == heapPop(c, h)
    IN  [h |-> r.h, fault |-> r.fault,
         val |-> IF r.fault # "" \/ r.val.k = "nil" THEN Zero(c.elem) ELSE r.val]

\* Peek
Peek(c, h) == IF h.n = 0 THEN Zero(c.elem) ELSE h.a[1]

\* Size
Size(h) == h.n

\* The matching rule of Contains and Remove.  reflect.TypeOf(nil) is nil,
\* and calling Comparable on it panics.
MatchFault(c, item) ==
    IF item.k = "nil" THEN "nil"
    ELSE IF ~Comparable(item) /\ c.eq = "none" THEN "Type is not comparable"
    ELSE ""

\* The configured equality function consulted whenever there is one.
MatchesEqualsFirst(c, v, item) == IF c.eq = "custom" THEN CustomEquals(v, item) ELSE v = item

Matches(c, v, item) == IF Comparable(item) THEN v = item ELSE CustomEquals(v, item)

\* The scan keeping the last index that matches instead of the first.
LastMatch(c, h, item) ==
    LET hits == {i \in 0..(h.n - 1) : Matches(c, h.a[i + 1], item)}
    IN  IF hits = {} THEN 0 - 1 ELSE CHOOSE i \in hits : \A j \in hits : i >= j

\* for i, v := range pq.heap.items: the first index that matches, or -1.
FirstMatch(c, h, item) ==
    LET hits == {i \in 0..(h.n - 1) : Matches(c, h.a[i + 1], item)}
    IN  IF hits = {} THEN 0 - 1 ELSE CHOOSE i \in hits : \A j \in hits : i <= j

\* Remove scanning before it looks for the equality function: nothing to
\* scan, nothing found.
RemoveScanFirst(c, h, item) ==
    LET f == IF h.n = 0 /\ item.k # "nil" THEN "" ELSE MatchFault(c, item)
        i == IF h.n = 0 THEN 0 - 1 ELSE FirstMatch(c, h, item)
    IN  IF f # "" THEN [h |-> h, fault |-> f, ok |-> FALSE]
        ELSE IF i < 0 THEN [h |-> h, fault |-> "", ok |-> FALSE]
        ELSE LET r == heapRemove(c, h, i)
             IN  [h |-> r.h, fault |-> r.fault, ok |-> r.fault = ""]

Contains(c, h, item) ==
    LET f == MatchFault(c, item)
    IN  [fault |-> f, ok |-> f = "" /\ FirstMatch(c, h, item) >= 0]

Remove(c, h, item) ==
    LET f == MatchFault(c, item)
        i == FirstMatch(c, h, item)
    IN  IF f # "" THEN [h |-> h, fault |-> f, ok |-> FALSE]
        ELSE IF i < 0 THEN [h |-> h, fault |-> "", ok |-> FALSE]
        ELSE LET r == heapRemove(c, h, i)
             IN  [h |-> r.h, fault |-> r.fault, ok |-> r.fault = ""]

\* Clear assigning to a copy of the queue: nothing is reset.
ClearNothing(c, h) == [h |-> h, fault |-> ""]

\* Clear: items = []E{}, then heap.Init.
Clear(c, h) == heapInit(c, [a |-> <<>>, n |-> 0, re |-> TRUE])

\* ToArray handing out the queue's own slice.
ToArrayAlias(m, s, id) == [out |-> s, mem |-> m]

\* ToArray: append([]E(nil), items...) copies the elements into an array
\* of its own; appending nothing to a nil slice leaves it nil.  The result
\* is the returned slice and the memory after the call; id is the array
\* the allocator hands out.
ToArray(m, s, id) ==
    IF s.len = 0 THEN [out |-> [arr |-> 0, len |-> 0], mem |-> m]
    ELSE [out |-> [arr |-> id, len |-> s.len],
          mem |-> [m EXCEPT ![id] = SubSeq(m[s.arr], 1, s.len)]]

\* --------------------------------------------------------------- state
VARIABLES
    cfg,    \* the options the queue was constructed with
    mem,    \* the backing arrays, by array id
    q,      \* pq.heap.items: [arr, len]; arr = 0 is a slice without storage
    out,    \* the slice the last ToArray returned, in the caller's hands
    last,   \* the last call: its name, argument, results, and len before it
    net     \* calls that reported an insertion minus calls that reported a
            \* removal, since construction or the last Clear

vars == <<cfg, mem, q, out, last, net>>

ArrIds == {1, 2}

ArrOf(m, s) == IF s.arr = 0 THEN <<>> ELSE m[s.arr]

\* The queue's heap value, and its elements in backing-array order.
Heap == [a |-> ArrOf(mem, q), n |-> q.len, re |-> FALSE]

Items == SubSeq(ArrOf(mem, q), 1, q.len)

OutItems == SubSeq(ArrOf(mem, out), 1, out.len)

\* An array id no live slice other than the one being replaced refers to.
FreshId(used) == CHOOSE i \in ArrIds \ used : \A j \in ArrIds \ used : i <= j

\* The heap value h becomes the queue's: a new array gets an id of its own,
\* and arrays nothing refers to any more are dropped.
Commit(h) ==
    LET id == IF ~h.re THEN q.arr ELSE IF Len(h.a) = 0 THEN 0 ELSE FreshId({out.arr})
    IN  /\ q' = [arr |-> id, len |-> h.n]
        /\ mem' = [i \in ArrIds |-> IF i = id THEN h.a ELSE IF i = out.arr THEN mem[i] ELSE <<>>]

Call(op, arg, ok, val, fault) ==
    [op |-> op, arg |-> arg, ok |-> ok, val |-> val, fault |-> fault, n0 |-> q.len]

\* An unrecovered panic ends the program.
Running == last.fault = ""

InitWith(cs) ==
    /\ cfg \in cs
    /\ LET h == New(cfg).h
       IN  /\ q = [arr |-> IF Len(h.a) = 0 THEN 0 ELSE 1, len |-> 0]
           /\ mem = [i \in ArrIds |-> IF i = 1 THEN h.a ELSE <<>>]
    /\ out = [arr |-> 0, len |-> 0]
    /\ last = [op |-> "New", arg |-> NilElem, ok |-> TRUE, val |-> NilElem,
               fault |-> New(cfg).fault, n0 |-> 0]
    /\ net = 0

Init == InitWith(Configs)

CanInsert == q.len < cfg.len /\ net <= cfg.len /\ net >= 0 - cfg.len

DoOffer ==
    /\ Running /\ CanInsert
    /\ \E item \in Values(cfg) :
         LET r == Offer(cfg, Heap, item)
         IN  /\ Commit(r.h)
             /\ last' = Call("Offer", item, r.ok, NilElem, r.fault)
             /\ net' = IF r.ok THEN net + 1 ELSE net
    /\ UNCHANGED <<cfg, out>>

DoAdd ==
    /\ Running /\ CanInsert
    /\ \E item \in Values(cfg) :
         LET r == Add(cfg, Heap, item)
         IN  /\ Commit(r.h)
             /\ last' = Call("Add", item, r.ok, NilElem, r.fault)
             /\ net' = IF r.ok THEN net + 1 ELSE net
    /\ UNCHANGED <<cfg, out>>

DoPoll ==
    /\ Running
    /\ LET r == Poll(cfg, Heap)
       IN  /\ Commit(r.h)
           /\ last' = Call("Poll", NilElem, r.fault = "", r.val, r.fault)
           /\ net' = IF q.len > 0 /\ r.fault = "" THEN net - 1 ELSE net
    /\ UNCHANGED <<cfg, out>>

DoPeek ==
    /\ Running
    /\ last' = Call("Peek", NilElem, TRUE, Peek(cfg, Heap), "")
    /\ UNCHANGED <<cfg, mem, q, out, net>>

DoRemove ==
    /\ Running
    /\ \E item \in Values(cfg) :
         LET r == Remove(cfg, Heap, item)
         IN  /\ Commit(r.h)
             /\ last' = Call("Remove", item, r.ok, NilElem, r.fault)
             /\ net' = IF r.ok THEN net - 1 ELSE net
    /\ UNCHANGED <<cfg, out>>

DoContains ==
    /\ Running
    /\ \E item \in Values(cfg) :
         LET r == Contains(cfg, Heap, item)
         IN  last' = Call("Contains", item, r.ok, NilElem, r.fault)
    /\ UNCHANGED <<cfg, mem, q, out, net>>

DoClear ==
    /\ Running
    /\ LET r == Clear(cfg, Heap)
       IN  /\ Commit(r.h)
           /\ last' = Call("Clear", NilElem, TRUE, NilElem, r.fault)
    /\ net' = 0
    /\ UNCHANGED <<cfg, out>>

Next == DoOffer \/ DoAdd \/ DoPoll \/ DoPeek \/ DoRemove \/ DoContains \/ DoClear

Spec == Init /\ [][Next]_vars

\* The heap-order property of a sequence s under the ordering of c.
HeapOrdered(c, s) ==
    \A i \in 0..(Len(s) - 1) : \A ch \in {2 * i + 1, 2 * i + 2} :
        ch < Len(s) => (~CompareFault(c, s[i + 1], s[ch + 1]) /\ Compare(c, s[i + 1], s[ch + 1]) <= 0)


\* The ordering of c is a strict weak ordering on the values the queue is
\* used with: it never panics, its sign turns round with its arguments,
\* and "less" and "neither less" are transitive.
StrictWeakOrdering(c) ==
    LET V == Values(c)
        lt(a, b) == Compare(c, a, b) < 0
        eq(a, b) == Compare(c, a, b) = 0
    IN  /\ \A a, b \in V : ~CompareFault(c, a, b)
        /\ \A a, b \in V : Sign(Compare(c, a, b)) = 0 - Sign(Compare(c, b, a))
        /\ \A a, b, d \in V : lt(a, b) /\ lt(b, d) => lt(a, d)
        /\ \A a, b, d \in V : eq(a, b) /\ eq(b, d) => eq(a, d)

\* What Poll returns, call after call, until the queue is empty.
RECURSIVE PollAll(_, _)
PollAll(c, h) ==
    IF h.n = 0 THEN [out |-> <<>>, fault |-> ""]
    ELSE LET r == Poll(c, h)
         IN  IF r.fault # "" THEN [out |-> <<>>, fault |-> r.fault]
             ELSE LET rest == PollAll(c, r.h)
                  IN  [out |-> <<r.val>> \o rest.out, fault |-> rest.fault]

NonDecreasing(c, s) ==
    \A k \in 1..(Len(s) - 1) :
        ~CompareFault(c, s[k], s[k + 1]) /\ Compare(c, s[k], s[k + 1]) <= 0

Count(s, e) == Cardinality({i \in DOMAIN s : s[i] = e})

\* ------------------------------------------------ ToArray in use
\* The caller keeps the slice ToArray returned and writes into it.  ToArray
\* reads the queue and changes nothing of it, so Next leaves it out and
\* NextToArray adds it, with the caller's writes.
DoToArray ==
    /\ Running
    /\ LET m0 == [i \in ArrIds |-> IF i = q.arr THEN mem[i] ELSE <<>>]
           r == ToArray(m0, q, FreshId({q.arr}))
       IN  /\ out' = r.out
           /\ mem' = r.mem
    /\ last' = Call("ToArray", NilElem, TRUE, NilElem, "")
    /\ UNCHANGED <<cfg, q, net>>

DoMutate ==
    /\ Running
    /\ out.arr # 0
    /\ \E i \in 0..(out.len - 1) : \E x \in Values(cfg) :
         /\ mem' = [mem EXCEPT ![out.arr][i + 1] = x]
         /\ last' = Call("Mutate", x, TRUE, NilElem, "")
    /\ UNCHANGED <<cfg, q, out, net>>

NextToArray == Next \/ DoToArray \/ DoMutate

SpecToArray == InitWith({c \in Configs : c.elem = "string" /\ c.cap = 1}) /\ [][NextToArray]_vars

\* The default ordering on int over the whole machine range.
SpecDefaultInt == InitWith({c \in Configs : c.elem = "int" /\ c.wide}) /\ [][Next]_vars

C2_SortedExtraction ==
    LET d == PollAll(cfg, Heap)
    IN  d.fault = "" /\ Len(d.out) = q.len /\ NonDecreasing(cfg, d.out)

\* ---------------------------------------------------------------- C3
\* C3: Poll on an empty queue raises no fault, returns the zero value of
\* the element type and leaves the queue empty.
C3_PollEmpty ==
    (last.op = "Poll" /\ last.n0 = 0) =>
        (last.fault = "" /\ last.val = Zero(cfg.elem) /\ q.len = 0)

\* ---------------------------------------------------------------- C4
\* C4: Size() is the number of Add/Offer calls that returned true minus
\* the Remove calls that returned true and the Polls of a non-empty queue,
\* counted since construction or the last Clear.
C4_SizeConsistency == Size(Heap) = net

\* ---------------------------------------------------------------- C5
\* C5: Peek on a non-empty queue returns an element m of the queue with
\* compare(m, x) <= 0 for every element x of the queue, and leaves the
\* backing array and Size() unchanged.
C5_PeekMinimum ==
    [][(last'.op = "Peek" /\ q.len > 0) =>
        /\ mem' = mem /\ q' = q
        /\ \E i \in 1..q.len : Items[i] = last'.val
        /\ \A i \in 1..q.len :
             ~CompareFault(cfg, last'.val, Items[i]) /\ Compare(cfg, last'.val, Items[i]) <= 0]_vars

C7_ConfigurationFault ==
    [][(last'.op \in {"Remove", "Contains"} /\ cfg.elem = "Task" /\ cfg.eq = "none") =>
        (last'.fault = "Type is not comparable" /\ mem' = mem /\ q' = q)]_vars

C7_Witness ==
    /\ cfg.elem = "Task" /\ cfg.eq = "none"
    /\ last.op = "Remove" /\ last.fault = "Type is not comparable"
    /\ q.len = 0 /\ last.n0 = 0

\* ---------------------------------------------------------------- C8
\* C8: every Offer returns true and every Add returns true without the
\* "Queue is full" fault, in every queue state and under every initial
\* capacity.
C8_InsertionNeverFails == last.op \in {"Offer", "Add"} => (last.ok /\ last.fault = "")

\* ---------------------------------------------------------------- C9
\* C9: whenever Offer returns false or Add raises its fault, the backing
\* array and Size() are what they were before the call.
C9_NoPartialInsertion ==
    [][(last'.op \in {"Offer", "Add"} /\ ~last'.ok) => (Items' = Items /\ q'.len = q.len)]_vars

\* --------------------------------------------------------------- C10
\* C10: ToArray returns a sequence equal index by index to the backing
\* array (its length is Size()), in storage of its own: writing into the
\* returned sequence leaves the backing array, and what the following
\* Polls return, unchanged.
C10_ToArrayCopy ==
    [][/\ last'.op = "ToArray" => (OutItems' = Items /\ out'.len = Size(Heap) /\ Items' = Items)
       /\ last'.op = "Mutate" => (Items' = Items /\ PollAll(cfg, Heap') = PollAll(cfg, Heap))]_vars

C10_Witness ==
    /\ last.op = "Mutate" /\ q.len = 3 /\ out.len = 3
    /\ OutItems # Items
    /\ Items[1] # Items[2]

\* --------------------------------------------------------------- C11
\* The elements of a heap value, in backing-array order.
ItemsOf(h) == SubSeq(h.a, 1, h.n)

\* Offer called with the items of s, one after the other.
RECURSIVE OfferAll(_, _, _)
OfferAll(c, h, s) == IF s = <<>> THEN h ELSE OfferAll(c, Offer(c, h, Head(s)).h, Tail(s))

\* The argument lists of up to two insertions.
Inserts(c) == {<<>>} \cup {<<x>> : x \in Values(c)} \cup {<<x, y>> : x, y \in Values(c)}

\* C11: after Clear the queue is empty (Size() is 0, ToArray() is empty,
\* Peek() returns the zero value), a second Clear changes nothing, the
\* options are the ones before Clear, and elements added afterwards are
\* ordered as in a newly constructed queue.
C11_Clear ==
    /\ [](last.op = "Clear" =>
            /\ Size(Heap) = 0
            /\ ToArray(mem, q, FreshId({q.arr})).out.len = 0
            /\ Peek(cfg, Heap) = Zero(cfg.elem)
            /\ ItemsOf(Clear(cfg, Heap).h) = Items /\ Clear(cfg, Heap).fault = ""
            /\ \A s \in Inserts(cfg) :
                 ItemsOf(OfferAll(cfg, Heap, s)) = ItemsOf(OfferAll(cfg, New(cfg).h, s)))
    /\ [][last'.op = "Clear" => cfg' = cfg]_vars

C11_Witness ==
    /\ last.op = "Clear" /\ last.n0 = MaxLen /\ cfg.cmp = "custom"
    /\ q.len = 0 /\ net = 0

\* --------------------------------------------------------------- C12
\* C12: Contains(item) returns true exactly when an immediately following
\* Remove(item) returns true, for every item and in every reachable state,
\* and a Contains call leaves the backing array as it was.
C12_ContainsAsRemove ==
    /\ [](Running =>
            \A item \in Values(cfg) :
                Contains(cfg, Heap, item).ok <=> Remove(cfg, Heap, item).ok)
    /\ [][last'.op = "Contains" => mem' = mem /\ q' = q]_vars

\* --------------------------------------------------------------- C13
\* The options of New without WithCapacity: items stays make([]E, 0, 11).
WithoutCapacity(c) == [c EXCEPT !.cap = DefaultCapacity]

\* The heap value of a queue constructed without WithCapacity that holds
\* the elements of h in the same order.
Uncapped(c, h) ==
    [a |-> ItemsOf(h) \o Zeros(c.elem, DefaultCapacity - h.n), n |-> h.n, re |-> FALSE]

\* What a caller can see of a call's result: the return values, the panic,
\* and the elements left in the queue.
Logical(r) == [r EXCEPT !.h = ItemsOf(r.h)]

\* The contents of the slice ToArray returns for a queue whose heap is h.
ToArrayOf(h) ==
    LET m == [i \in ArrIds |-> IF i = 1 THEN h.a ELSE <<>>]
        r == ToArray(m, [arr |-> IF Len(h.a) = 0 THEN 0 ELSE 1, len |-> h.n], 2)
    IN  SubSeq(ArrOf(r.mem, r.out), 1, r.out.len)

\* Construction succeeds with Size() = 0, and every call gives the same
\* return values, the same panic and the same elements (hence the same
\* ToArray()) as on a queue constructed without the capacity option that
\* holds the same elements; the two queues start with the same (no)
\* elements, so they agree at every step.
CapacityNeutral ==
    /\ last.op = "New" => last.fault = "" /\ Size(Heap) = 0
    /\ Running =>
        LET d == WithoutCapacity(cfg)
            u == Uncapped(cfg, Heap)
        IN  /\ \A item \in Values(cfg) :
                 /\ Logical(Offer(cfg, Heap, item)) = Logical(Offer(d, u, item))
                 /\ Logical(Add(cfg, Heap, item)) = Logical(Add(d, u, item))
                 /\ Logical(Remove(cfg, Heap, item)) = Logical(Remove(d, u, item))
                 /\ Contains(cfg, Heap, item) = Contains(d, u, item)
            /\ Logical(Poll(cfg, Heap)) = Logical(Poll(d, u))
            /\ Logical(Clear(cfg, Heap)) = Logical(Clear(d, u))
            /\ Peek(cfg, Heap) = Peek(d, u)
            /\ Size(Heap) = Size(u)
            /\ ToArrayOf(Heap) = ToArrayOf(u)

C14_DefaultIntThreeWay ==
    (cfg.elem = "int" /\ cfg.cmp = "default") =>
        \A i, j \in 1..q.len :
            LET a == Items[i]
                b == Items[j]
                r == DefaultComparator(a, b)
            IN  /\ r < 0 <=> a.v < b.v
                /\ r = 0 <=> a.v = b.v
                /\ r > 0 <=> a.v > b.v

\* --------------------------------------------------------------- C15
\* Queues constructed with WithEquals: Person (a comparable struct, the
\* equality function compares names only) and Task (not comparable).
EqualsConfigs ==
    {Config("Person", "custom", "custom", DefaultCapacity, FALSE),
     Config("Task", "custom", "custom", DefaultCapacity, FALSE)}

SpecEquals == InitWith(EqualsConfigs) /\ [][Next]_vars

\* C15: with an element type that has native equality, Contains and Remove
\* find an element exactly when one is natively equal to the item, whatever
\* the configured equality function says, and Remove takes out a natively
\* equal one; with an element type without native equality they find an
\* element exactly when the configured function says so.
C15_EqualityDispatch ==
    [][(last'.op \in {"Contains", "Remove"} /\ last'.fault = "") =>
        LET item == last'.arg
            native == \E i \in 1..q.len : Items[i] = item
            configured == \E i \in 1..q.len : CustomEquals(Items[i], item)
        IN  /\ last'.ok <=> IF Comparable(item) THEN native ELSE configured
            /\ (last'.op = "Remove" /\ last'.ok /\ Comparable(item)) =>
                   Count(Items', item) = Count(Items, item) - 1]_vars

C15_Witness ==
    /\ cfg.elem = "Person" /\ cfg.eq = "custom"
    /\ last.op = "Remove" /\ ~last.ok /\ last.fault = ""
    /\ \E i \in 1..q.len : CustomEquals(Items[i], last.arg)

\* --------------------------------------------------------------- C16
\* A default-ordered PriorityQueue[int] filled to three levels of the tree,
\* where a removal can move the last element of one subtree into another.
HeapConfigs == {[Config("int", "default", "none", DefaultCapacity, FALSE) EXCEPT !.len = MaxDeep]}

SpecHeap == InitWith(HeapConfigs) /\ [][Next]_vars

\* The algorithm the queue is specified by, on a sequence s whose element
\* with index i is s[i + 1].
SwapAt(s, i, j) == [s EXCEPT ![i + 1] = s[j + 1], ![j + 1] = s[i + 1]]

\* siftUp(i): while i has a parent p = (i-1)/2 with
\* compare(items[i], items[p]) < 0, swap and continue from p.
RECURSIVE siftUp(_, _, _)
siftUp(c, s, i) ==
    LET p == (i - 1) \div 2
    IN  IF i > 0 /\ Compare(c, s[i + 1], s[p + 1]) < 0 THEN siftUp(c, SwapAt(s, i, p), p) ELSE s

\* siftDown(i): while i has at least one child that is smaller, swap with
\* the smaller child and continue from there.  Either child is "the smaller"
\* one when the two compare equal, so the results are a set.
RECURSIVE siftDown(_, _, _)
siftDown(c, s, i) ==
    LET kids == {k \in {2 * i + 1, 2 * i + 2} : k < Len(s)}
        smaller == {k \in kids : \A m \in kids : Compare(c, s[k + 1], s[m + 1]) <= 0}
    IN  IF \E k \in kids : Compare(c, s[k + 1], s[i + 1]) < 0
        THEN UNION {siftDown(c, SwapAt(s, i, k), k) : k \in smaller}
        ELSE {s}

\* Insert: append to end, then siftUp(last index).
Insert(c, s, x) == siftUp(c, Append(s, x), Len(s))

\* RemoveAt(i): swap items[i] with the last element, shrink by one; if i is
\* now within bounds, siftDown(i) then siftUp(i).
RemoveAt(c, s, i) ==
    LET n == Len(s) - 1
        t == SubSeq(SwapAt(s, i, n), 1, n)
    IN  IF i < n THEN {siftUp(c, d, i) : d \in siftDown(c, t, i)} ELSE {t}

\* The README's queue of Persons ordered by age, and its three Persons.
PersonConfig == Config("Person", "custom", "none", DefaultCapacity, FALSE)

Ages == <<Person(1, 28), Person(2, 29), Person(3, 25)>>

\* C16: under a strict weak ordering, what every insertion, every Poll on a
\* non-empty queue and every Remove that finds its item leaves in the
\* backing array is a result of the specified Insert, RemoveAt(0) and
\* RemoveAt(index of the first match), and Poll returns the former root;
\* inserting the ages 28, 29, 25 leaves the array [25, 29, 28].
C16_HeapRefinement ==
    /\ (StrictWeakOrdering(cfg) /\ Running) =>
        /\ \A item \in Values(cfg) :
             /\ ItemsOf(Offer(cfg, Heap, item).h) = Insert(cfg, Items, item)
             /\ ItemsOf(Add(cfg, Heap, item).h) = Insert(cfg, Items, item)
             /\ Contains(cfg, Heap, item).ok =>
                  ItemsOf(Remove(cfg, Heap, item).h)
                      \in RemoveAt(cfg, Items, FirstMatch(cfg, Heap, item))
        /\ q.len > 0 =>
             /\ ItemsOf(Poll(cfg, Heap).h) \in RemoveAt(cfg, Items, 0)
             /\ Poll(cfg, Heap).val = Items[1]
    /\ ItemsOf(OfferAll(PersonConfig, New(PersonConfig).h, Ages))
           = <<Person(3, 25), Person(2, 29), Person(1, 28)>>

\* A Remove on a full three-level heap, e.g. of 3 from [1, 2, 1, 3, 2, 1],
\* where the last element moves up past its new parent.
C16_Witness ==
    /\ cfg.len = MaxDeep /\ StrictWeakOrdering(cfg)
    /\ last.op = "Remove" /\ last.ok /\ last.arg = IntE(3) /\ last.n0 = MaxDeep
    /\ Items = <<IntE(1), IntE(1), IntE(1), IntE(2), IntE(2)>>

\* --------------------------------------------------------------- C17
\* How many more times e is in the backing array after a step than before.
Gained(e) == Count(Items', e) - Count(Items, e)

\* C17: the elements of the backing array are the items of the Add/Offer
\* calls that returned true, less what Poll returned from a non-empty queue,
\* less one matching element per Remove that returned true.  Step by step:
\* an insertion that returns true adds its item once and nothing else, a
\* Poll on a non-empty queue takes out the element it returns, a Remove
\* that returns true takes out one element matching its item, Clear starts
\* again from nothing, and every other call leaves the elements as they are.
C17_Conservation ==
    [][LET all == Values(cfg) \cup {Items[i] : i \in 1..Len(Items)}
               \cup {Items'[i] : i \in 1..Len(Items')}
           inserted == last'.op \in {"Offer", "Add"} /\ last'.ok
           polled == last'.op = "Poll" /\ last'.n0 > 0 /\ last'.fault = ""
           removed == last'.op = "Remove" /\ last'.ok
       IN  CASE last'.op = "Clear" -> Items' = <<>>
             [] inserted -> \A e \in all : Gained(e) = IF e = last'.arg THEN 1 ELSE 0
             [] polled -> \A e \in all : Gained(e) = IF e = last'.val THEN 0 - 1 ELSE 0
             [] removed ->
                  \E x \in all :
                      /\ Matches(cfg, x, last'.arg)
                      /\ \A e \in all : Gained(e) = IF e = x THEN 0 - 1 ELSE 0
             [] OTHER -> \A e \in all : Gained(e) = 0]_vars
=============================================================================
